---- MODULE Spec2Model ----
(***************************************************************************)
(* Credit-application pipeline: application state, the five stage nodes,   *)
(* the conditional routing between them, the decision node, and the        *)
(* checkpointed run / resume entry points of graph/workflow.py; the         *)
(* WebSocket connection registry and the background task of main.py.       *)
(*                                                                         *)
(* Scores, confidences and ratios are exact rationals in units of 1/10000  *)
(* (0.6 is 6000, a debt-to-equity ratio of 3.0 is 30000).                  *)
(***************************************************************************)
EXTENDS Integers, Sequences, FiniteSets, TLC

VARIABLES state, next, proc, route, ret, resumes, given

\* the run of one application
pvars == <<state, next, proc, route, ret, resumes, given>>

\* main.py: the registry of ConnectionManager, the websocket_endpoint
\* handlers, the background task of each submitted application
VARIABLES active_connections, sockets, delivered, task, outcome, notified

wsvars == <<active_connections, sockets, delivered, task, outcome, notified>>

\* graph/workflow.py: the executing calls of process_credit_application
\* and the checkpoints of their threads
VARIABLES runs, threads, plans, steps

pairvars == <<runs, threads, plans, steps>>

\* services/llm_service.py: the frame of one LLMService call
VARIABLES llm_call

envvars == <<wsvars, pairvars, llm_call>>

\* what the actions of one part of the service leave alone
nonws == <<pvars, pairvars, llm_call>>

nonpair == <<pvars, wsvars, llm_call>>

nonretry == <<pvars, wsvars, pairvars>>

\* the largest retry_attempts a call is made with
MaxAttempts == 3

\* no call of the LLM service is in progress
RetryFrame ==
    [method |-> "none", retry_attempts |-> 0, pc |-> "idle", attempt |-> 0,
     calls |-> 0, sleeps |-> <<>>, log |-> <<>>, last_exception |-> "none",
     response |-> "none", raised |-> "none"]

RetryIdle == llm_call = RetryFrame

vars == <<pvars, envvars>>

\* application ids of the service-level specifications
AppIds == {"app1", "app2"}

\* how many WebSocket connections are opened
MaxSockets == 2

Sockets == 1..MaxSockets

\* no entry under that key of active_connections
NoSocket == 0

\* no client has connected, no application is being processed
WsIdle ==
    /\ active_connections = [id \in AppIds |-> NoSocket]
    /\ sockets = [ws \in Sockets |-> [st |-> "new", app |-> "none"]]
    /\ delivered = [ws \in Sockets |-> <<>>]
    /\ task = [id \in AppIds |-> "none"]
    /\ outcome = [id \in AppIds |-> "none"]
    /\ notified = [id \in AppIds |-> "none"]


\* 1.0 in the units of the model
One == 10000

\* a confidence that is not a number (JSON null or a string taken over
\* unchecked from the LLM answer)
NotANumber == 0 - 1

\* how many times one run may be interrupted
MaxResumes == 2

(***************************************************************************)
(* Result shapes.  kind "none" is None, "empty" is {}, "dict" a filled     *)
(* result; the other fields are the keys the routers and the decision     *)
(* node read, holding the .get() default when the key is missing.          *)
(***************************************************************************)
NoValidation ==
    [kind |-> "none", status |-> "", score |-> 0, nErr |-> 0, nWarn |-> 0]

NoLegal ==
    [kind |-> "none", status |-> "", score |-> 0, confidence |-> 0,
     nRisks |-> 0, critical |-> FALSE]

NoRisk ==
    [kind |-> "none", status |-> "", score |-> 0, confidence |-> 0,
     risk_level |-> "", financial_risk |-> 0, market_risk |-> 0,
     operational_risk |-> 0]

NoRelevance ==
    [kind |-> "none", status |-> "", score |-> 0, confidence |-> 0,
     relevance_level |-> "unknown", market_relevance |-> 0,
     economic_impact |-> 0]

NoFinancial ==
    [kind |-> "none", status |-> "", score |-> 0, confidence |-> 0,
     stability_level |-> "unknown", debt_to_equity |-> 0,
     liquidity_ratio |-> 0, cash_flow_score |-> 0,
     financial_stability |-> 0]

NoDecision ==
    [kind |-> "none", status |-> "", amount_approved |-> 0,
     has_amount |-> FALSE, expires_at |-> FALSE]

\* str.lower() on the status and level strings of the model
Lower(s) ==
    CASE s = "ERROR" -> "error"
      [] s = "REJECTED" -> "rejected"
      [] s = "Critical" -> "critical"
      [] OTHER -> s

\* "if not result": None and {} are both falsy
Falsy(r) == r.kind # "dict"

(***************************************************************************)
(* Routers (graph/edges/routing.py).  "raise" is the TypeError of a        *)
(* comparison between a non-number and a float.                            *)
(***************************************************************************)
ValidationMinScore == 6000
LegalMinScore == 5000
LegalMinConfidence == 6000
RiskMinScore == 4000
RelevanceMinScore == 5000
FinancialMinScore == 5000

\* variant: a score equal to the minimum is rejected as well
validation_router_exclusive(s) ==
    LET r == s.validation_result IN
    IF Falsy(r) THEN "error"
    ELSE IF Lower(r.status) = "error" \/ r.nErr > 5 THEN "reject"
    ELSE IF r.score <= ValidationMinScore THEN "reject"
    ELSE "continue"

should_continue_after_validation(s) ==
    LET r == s.validation_result IN
    IF Falsy(r) THEN "error"
    ELSE IF Lower(r.status) = "error" \/ r.nErr > 5 THEN "reject"
    ELSE IF r.score < ValidationMinScore THEN "reject"
    ELSE "continue"

\* variant: an error status is routed as "error"
legal_router_error_status(s) ==
    LET r == s.legal_analysis IN
    IF Falsy(r) \/ Lower(r.status) = "error" THEN "error"
    ELSE IF r.critical THEN "reject"
    ELSE IF Lower(r.status) \in {"rejected", "failed", "blocked"} THEN "reject"
    ELSE IF r.score < LegalMinScore THEN "reject"
    ELSE IF r.confidence = NotANumber THEN "raise"
    ELSE IF r.confidence < LegalMinConfidence THEN "reject"
    ELSE "continue"

should_continue_after_legal(s) ==
    LET r == s.legal_analysis IN
    IF Falsy(r) THEN "error"
    ELSE IF r.critical THEN "reject"
    ELSE IF Lower(r.status) \in {"rejected", "failed", "blocked"} THEN "reject"
    ELSE IF r.score < LegalMinScore THEN "reject"
    ELSE IF r.confidence = NotANumber THEN "raise"
    ELSE IF r.confidence < LegalMinConfidence THEN "reject"
    ELSE "continue"

\* variant: the risk level is not looked at
risk_router_numeric_only(s) ==
    LET r == s.risk_analysis
        high_risk_count ==
            Cardinality({k \in {"financial_risk", "market_risk", "operational_risk"} :
                            r[k] > 7000})
    IN
    IF Falsy(r) THEN "error"
    ELSE IF r.financial_risk > 8000 THEN "reject"
    ELSE IF high_risk_count >= 2 THEN "reject"
    ELSE IF r.score < RiskMinScore THEN "reject"
    ELSE "continue"

should_continue_after_risk(s) ==
    LET r == s.risk_analysis
        high_risk_count ==
            Cardinality({k \in {"financial_risk", "market_risk", "operational_risk"} :
                            r[k] > 7000})
    IN
    IF Falsy(r) THEN "error"
    ELSE IF Lower(r.risk_level) \in {"critical", "ochen vysokij", "nepriemlemyj"}
         THEN "reject"
    ELSE IF r.financial_risk > 8000 THEN "reject"
    ELSE IF high_risk_count >= 2 THEN "reject"
    ELSE IF r.score < RiskMinScore THEN "reject"
    ELSE "continue"

should_continue_after_relevance(s) ==
    LET r == s.relevance_analysis IN
    IF Falsy(r) THEN "error"
    ELSE IF r.market_relevance < 3000 THEN "reject"
    ELSE IF r.economic_impact < 4000 THEN "reject"
    ELSE IF r.score < RelevanceMinScore THEN "reject"
    ELSE IF r.confidence = NotANumber THEN "raise"
    ELSE "continue"

should_continue_after_financial(s) ==
    LET r == s.financial_analysis IN
    IF Falsy(r) THEN "error"
    ELSE IF r.debt_to_equity > 30000 THEN "reject"
    ELSE IF r.liquidity_ratio < 5000 THEN "reject"
    ELSE IF r.cash_flow_score < 3000 THEN "reject"
    ELSE IF r.financial_stability < 4000 THEN "reject"
    ELSE IF r.score < FinancialMinScore THEN "reject"
    ELSE "continue"

(***************************************************************************)
(* The graph (create_credit_workflow).                                     *)
(***************************************************************************)
Stages ==
    <<"validator", "legal_checker", "risk_manager", "relevance_checker",
      "financial_analyzer">>

StageNodes == {Stages[i] : i \in 1..Len(Stages)}

Nodes == StageNodes \cup {"decision_maker"}

StageIndex(n) == CHOOSE i \in 1..Len(Stages) : Stages[i] = n

\* the router attached to a stage node by add_conditional_edges
Router(n, s) ==
    CASE n = "validator" -> should_continue_after_validation(s)
      [] n = "legal_checker" -> should_continue_after_legal(s)
      [] n = "risk_manager" -> should_continue_after_risk(s)
      [] n = "relevance_checker" -> should_continue_after_relevance(s)
      [] n = "financial_analyzer" -> should_continue_after_financial(s)

\* the target each conditional edge maps the router's answer to
\* variant: continue after validation goes to the risk stage
EdgeTargetSkipping(n, r) ==
    IF r = "continue"
    THEN (IF n = "financial_analyzer" THEN "decision_maker"
          ELSE IF n = "validator" THEN "risk_manager"
          ELSE Stages[StageIndex(n) + 1])
    ELSE IF r = "reject" THEN "decision_maker"
    ELSE "END"

EdgeTarget(n, r) ==
    CASE r = "continue" ->
            IF StageIndex(n) < Len(Stages) THEN Stages[StageIndex(n) + 1]
            ELSE "decision_maker"
      [] r = "reject" -> "decision_maker"
      [] r = "error" -> "END"

(***************************************************************************)
(* Application state (graph/state.py).                                     *)
(***************************************************************************)
RequestedAmounts == {1000}

create_initial_state(amount) ==
    [form_data |-> [requested_amount |-> amount],
     validation_result |-> NoValidation,
     legal_analysis |-> NoLegal,
     risk_analysis |-> NoRisk,
     relevance_analysis |-> NoRelevance,
     financial_analysis |-> NoFinancial,
     agent_reasoning |-> <<>>,
     final_decision |-> NoDecision,
     current_step |-> "started",
     errors |-> <<>>,
     warnings |-> <<>>,
     processing_end_time |-> FALSE]

add_agent_reasoning(s, agent_name) ==
    [s EXCEPT !.agent_reasoning = Append(@, agent_name)]

update_processing_step(s, new_step) ==
    [s EXCEPT !.current_step = new_step,
              !.processing_end_time =
                  IF new_step \in {"completed", "error", "rejected"}
                  THEN TRUE ELSE @]

\* min(1.0, max(0.0, x))
Clamp01(x) == IF x < 0 THEN 0 ELSE IF x > One THEN One ELSE x

(***************************************************************************)
(* Stage results: the combine_* functions of the five stage nodes.         *)
(***************************************************************************)
combine_validation_results(form, pdf, llm) ==
    LET nErr == form.nErr + pdf.nErr + llm.nIssues
        nWarn == form.nWarn + pdf.nWarn
    IN  [kind |-> "dict",
         status |-> IF nErr > 0
                    THEN (IF nErr > 3 THEN "error" ELSE "warning")
                    ELSE IF nWarn > 0 THEN "warning" ELSE "success",
         score |-> (40 * form.score + 30 * pdf.score + 30 * llm.score) \div 100,
         nErr |-> nErr,
         nWarn |-> nWarn]

combine_legal_results(company, documents, llm, compliance) ==
    LET overall_score ==
            (30 * company.score + 30 * documents.score + 25 * llm.score
                + 15 * compliance.score) \div 100
        all_risks ==
            company.nIssues + documents.nIssues + llm.nRisks + compliance.nViolations
    IN  [kind |-> "dict",
         status |-> IF overall_score >= 7000 /\ all_risks <= 2 THEN "approved"
                    ELSE IF overall_score >= 5000 /\ all_risks <= 5 THEN "conditional"
                    ELSE "rejected",
         score |-> overall_score,
         confidence |-> llm.confidence,
         nRisks |-> IF all_risks > 10 THEN 10 ELSE all_risks,
         critical |-> llm.critical]

combine_risk_results(financial, market, operational, management, llm) ==
    LET weighted_score ==
            (35 * financial + 25 * market + 20 * operational + 15 * management) \div 100
        llm_adjustment == ((llm.risk_score - 5000) * 5) \div 100
        overall_score == Clamp01(weighted_score + llm_adjustment)
    IN  [kind |-> "dict",
         status |-> IF overall_score >= 8000 THEN "rejected"
                    ELSE IF overall_score >= 6000 THEN "conditional"
                    ELSE "approved",
         score |-> One - overall_score,
         confidence |-> llm.confidence,
         risk_level |-> IF overall_score >= 8000 THEN "critical"
                        ELSE IF overall_score >= 6000 THEN "high"
                        ELSE IF overall_score >= 4000 THEN "medium"
                        ELSE "low",
         financial_risk |-> financial,
         market_risk |-> market,
         operational_risk |-> operational]

combine_relevance_results(market, innovation, economic, policy, sustainability, llm) ==
    LET weighted_score ==
            (25 * market + 25 * innovation + 20 * economic + 15 * policy
                + 10 * sustainability) \div 100
        llm_adjustment == ((llm.score - 5000) * 5) \div 100
        overall_score == Clamp01(weighted_score + llm_adjustment)
    IN  [kind |-> "dict",
         status |-> IF overall_score >= 6000 THEN "approved"
                    ELSE IF overall_score >= 4000 THEN "conditional"
                    ELSE "rejected",
         score |-> overall_score,
         confidence |-> llm.confidence,
         relevance_level |-> IF overall_score >= 8000 THEN "high"
                             ELSE IF overall_score >= 6000 THEN "moderate"
                             ELSE IF overall_score >= 4000 THEN "low"
                             ELSE "very_low",
         market_relevance |-> market,
         economic_impact |-> economic]

combine_financial_results(ratios, cash_flow, creditworthiness, debt_capacity, llm) ==
    LET capped_debt == IF ratios.debt_to_equity > One THEN One
                       ELSE ratios.debt_to_equity
        ratios_score ==
            Clamp01((30 * ratios.liquidity_ratio + 30 * (One - capped_debt)
                        + 40 * ratios.profitability) \div 100)
        weighted_score ==
            (25 * ratios_score + 25 * cash_flow + 20 * creditworthiness
                + 15 * debt_capacity + 15 * llm.score) \div 100
    IN  [kind |-> "dict",
         status |-> IF weighted_score >= 6000 THEN "approved"
                    ELSE IF weighted_score >= 4000 THEN "conditional"
                    ELSE "rejected",
         score |-> weighted_score,
         confidence |-> llm.confidence,
         stability_level |-> IF weighted_score >= 8000 THEN "excellent"
                             ELSE IF weighted_score >= 7000 THEN "good"
                             ELSE IF weighted_score >= 6000 THEN "acceptable"
                             ELSE IF weighted_score >= 4000 THEN "weak"
                             ELSE "poor",
         debt_to_equity |-> ratios.debt_to_equity,
         liquidity_ratio |-> ratios.liquidity_ratio,
         cash_flow_score |-> cash_flow,
         financial_stability |-> weighted_score]

(***************************************************************************)
(* The result a stage node stores on its exception path.                   *)
(***************************************************************************)
ValidationFallback ==
    [kind |-> "dict", status |-> "error", score |-> 0, nErr |-> 1, nWarn |-> 0]

LegalFallback(critical) ==
    [kind |-> "dict", status |-> "error", score |-> 0, confidence |-> 0,
     nRisks |-> 1, critical |-> critical]

RiskFallback ==
    [kind |-> "dict", status |-> "error", score |-> 0, confidence |-> 0,
     risk_level |-> "critical", financial_risk |-> 0, market_risk |-> 0,
     operational_risk |-> 0]

RelevanceFallback ==
    [kind |-> "dict", status |-> "error", score |-> 0, confidence |-> 0,
     relevance_level |-> "unknown", market_relevance |-> 0,
     economic_impact |-> 0]

FinancialFallback ==
    [kind |-> "dict", status |-> "error", score |-> 0, confidence |-> 0,
     stability_level |-> "critical", debt_to_equity |-> 0,
     liquidity_ratio |-> 0, cash_flow_score |-> 0,
     financial_stability |-> 0]

(***************************************************************************)
(* The qualitative-review call of each stage.  reply is what               *)
(* llm_service.call did: reply.fault says that it raised.  The except      *)
(* branch of the function returns a default verdict in place of the        *)
(* answer.                                                                 *)
(***************************************************************************)
perform_llm_validation(reply) ==
    IF reply.fault
    THEN [fault |-> TRUE, score |-> 5000, nIssues |-> 1]
    ELSE reply

\* variant: the default verdict carries the confidence of an answer
perform_llm_legal_analysis_confident(reply) ==
    IF reply.fault
    THEN [fault |-> TRUE, score |-> 5000, confidence |-> 7000, nRisks |-> 1,
          critical |-> reply.critical]
    ELSE reply

\* the one risk text of the default verdict quotes the exception's message,
\* which may hold one of the router's critical keywords
perform_llm_legal_analysis(reply) ==
    IF reply.fault
    THEN [fault |-> TRUE, score |-> 5000, confidence |-> 0, nRisks |-> 1,
          critical |-> reply.critical]
    ELSE reply

perform_llm_risk_analysis(reply) ==
    IF reply.fault
    THEN [fault |-> TRUE, risk_score |-> 7000, confidence |-> 0]
    ELSE reply

perform_llm_relevance_analysis(reply) ==
    IF reply.fault
    THEN [fault |-> TRUE, score |-> 5000, confidence |-> 0]
    ELSE reply

perform_llm_financial_analysis(reply) ==
    IF reply.fault
    THEN [fault |-> TRUE, score |-> 5000, confidence |-> 0]
    ELSE reply

(***************************************************************************)
(* Stage nodes.  in.fail says that something inside the try block raised.  *)
(***************************************************************************)
validator_node(s0, in) ==
    LET s == update_processing_step(s0, "validating") IN
    IF in.fail
    THEN [s EXCEPT !.errors = Append(@, "Validation failed"),
                   !.validation_result = ValidationFallback]
    ELSE update_processing_step(
            [add_agent_reasoning(s, "validator") EXCEPT
                !.validation_result =
                    combine_validation_results(in.form, in.pdf,
                                               perform_llm_validation(in.llm))],
            "validation_complete")

legal_node(s0, in) ==
    LET s == update_processing_step(s0, "legal_checking") IN
    IF in.fail
    THEN [s EXCEPT !.errors = Append(@, "Legal check failed"),
                   !.legal_analysis = LegalFallback(in.critical)]
    ELSE update_processing_step(
            [add_agent_reasoning(s, "legal_checker") EXCEPT
                !.legal_analysis =
                    combine_legal_results(in.company, in.documents,
                                          perform_llm_legal_analysis(in.llm),
                                          in.compliance)],
            "legal_check_complete")

risk_node(s0, in) ==
    LET s == update_processing_step(s0, "risk_analyzing") IN
    IF in.fail
    THEN [s EXCEPT !.errors = Append(@, "Risk analysis failed"),
                   !.risk_analysis = RiskFallback]
    ELSE update_processing_step(
            [add_agent_reasoning(s, "risk_manager") EXCEPT
                !.risk_analysis =
                    combine_risk_results(in.financial, in.market, in.operational,
                                         in.management,
                                         perform_llm_risk_analysis(in.llm))],
            "risk_analysis_complete")

relevance_node(s0, in) ==
    LET s == update_processing_step(s0, "relevance_checking") IN
    IF in.fail
    THEN [s EXCEPT !.errors = Append(@, "Relevance check failed"),
                   !.relevance_analysis = RelevanceFallback]
    ELSE update_processing_step(
            [add_agent_reasoning(s, "relevance_checker") EXCEPT
                !.relevance_analysis =
                    combine_relevance_results(in.market, in.innovation, in.economic,
                                              in.policy, in.sustainability,
                                              perform_llm_relevance_analysis(in.llm))],
            "relevance_check_complete")

financial_node(s0, in) ==
    LET s == update_processing_step(s0, "financial_analyzing") IN
    IF in.fail
    THEN [s EXCEPT !.errors = Append(@, "Financial analysis failed"),
                   !.financial_analysis = FinancialFallback]
    ELSE update_processing_step(
            [add_agent_reasoning(s, "financial_analyzer") EXCEPT
                !.financial_analysis =
                    combine_financial_results(in.ratios, in.cash_flow,
                                              in.creditworthiness, in.debt_capacity,
                                              perform_llm_financial_analysis(in.llm))],
            "financial_analysis_complete")

(***************************************************************************)
(* Decision node (graph/nodes/decision_node.py).                           *)
(***************************************************************************)
aggregate_analysis_results(s) ==
    LET v == s.validation_result
        l == s.legal_analysis
        r == s.risk_analysis
        q == s.relevance_analysis
        f == s.financial_analysis
        done(x) == ~Falsy(x)
    IN  [validation |->
            IF done(v)
            THEN [completed |-> TRUE, score |-> v.score, status |-> v.status,
                  errors_count |-> v.nErr]
            ELSE [completed |-> FALSE, score |-> 0, status |-> "not_completed",
                  errors_count |-> 0],
         legal |->
            IF done(l)
            THEN [completed |-> TRUE, score |-> l.score, status |-> l.status]
            ELSE [completed |-> FALSE, score |-> 0, status |-> "not_completed"],
         risk |->
            IF done(r)
            THEN [completed |-> TRUE, score |-> r.score, status |-> r.status,
                  risk_level |-> r.risk_level]
            ELSE [completed |-> FALSE, score |-> 0, status |-> "not_completed",
                  risk_level |-> "unknown"],
         relevance |->
            IF done(q)
            THEN [completed |-> TRUE, score |-> q.score, status |-> q.status,
                  relevance_level |-> q.relevance_level]
            ELSE [completed |-> FALSE, score |-> 0, status |-> "not_completed",
                  relevance_level |-> "unknown"],
         financial |->
            IF done(f)
            THEN [completed |-> TRUE, score |-> f.score, status |-> f.status,
                  stability_level |-> f.stability_level]
            ELSE [completed |-> FALSE, score |-> 0, status |-> "not_completed",
                  stability_level |-> "unknown"],
         completed_analyses |->
            Cardinality({x \in {"v", "l", "r", "q", "f"} :
                \/ x = "v" /\ done(v)
                \/ x = "l" /\ done(l)
                \/ x = "r" /\ done(r)
                \/ x = "q" /\ done(q)
                \/ x = "f" /\ done(f)})]

Components == {"validation", "legal", "risk", "relevance", "financial"}

\* the weight table of calculate_overall_scoring, in percent
Weight(c) ==
    CASE c = "validation" -> 15
      [] c = "legal" -> 20
      [] c = "risk" -> 25
      [] c = "relevance" -> 15
      [] c = "financial" -> 25

RECURSIVE SumOver(_, _)
SumOver(S, f) ==
    IF S = {} THEN 0
    ELSE LET x == CHOOSE y \in S : TRUE IN f[x] + SumOver(S \ {x}, f)

calculate_risk_adjustments(agg) ==
    (IF agg.validation.completed
     THEN (IF agg.validation.errors_count > 5 THEN 0 - 2000
           ELSE IF agg.validation.errors_count > 2 THEN 0 - 1000 ELSE 0)
     ELSE 0)
    + (IF agg.legal.completed /\ agg.legal.status \in {"rejected", "blocked"}
       THEN 0 - 3000 ELSE 0)
    + (IF agg.risk.completed
       THEN (IF agg.risk.risk_level = "critical" THEN 0 - 4000
             ELSE IF agg.risk.risk_level = "high" THEN 0 - 2000 ELSE 0)
       ELSE 0)
    + (IF agg.relevance.completed /\ agg.relevance.relevance_level = "very_low"
       THEN 0 - 1500 ELSE 0)
    + (IF agg.financial.completed
       THEN (IF agg.financial.stability_level = "poor" THEN 0 - 3000
             ELSE IF agg.financial.stability_level = "weak" THEN 0 - 1500 ELSE 0)
       ELSE 0)

\* overall_score as the exact fraction num / den (in units of 1/10000):
\*   base = weighted_sum / total_weight, times (1 - (1 - completion) * 0.3)
\*   when the analysis is incomplete, plus the risk adjustments, clamped.
calculate_overall_scoring(agg) ==
    LET completed == {c \in Components : agg[c].completed}
        weighted_sum == SumOver(completed, [c \in Components |-> Weight(c) * agg[c].score])
        total_weight == SumOver(completed, [c \in Components |-> Weight(c)])
        den == IF total_weight > 0 THEN total_weight * 100 ELSE 1
        keep == 100 - 6 * (5 - agg.completed_analyses)
        raw == (IF total_weight > 0 THEN weighted_sum * keep ELSE 0)
                 + calculate_risk_adjustments(agg) * den
    IN  [num |-> IF raw < 0 THEN 0 ELSE IF raw > One * den THEN One * den ELSE raw,
         den |-> den]

\* overall_score >= t
ScoreAtLeast(sc, t) == sc.num >= t * sc.den

apply_decision_logic(agg, sc) ==
    LET blocking ==
            \/ agg.validation.completed /\ agg.validation.errors_count > 7
            \/ agg.legal.completed /\ agg.legal.status \in {"rejected", "blocked"}
            \/ agg.risk.completed /\ agg.risk.risk_level = "critical"
            \/ agg.financial.completed /\ agg.financial.stability_level = "poor"
        conditional_factors ==
            (IF agg.risk.completed /\ agg.risk.risk_level = "high" THEN 1 ELSE 0)
            + (IF agg.financial.completed /\ agg.financial.stability_level = "weak"
               THEN 1 ELSE 0)
            + (IF agg.completed_analyses < 5 THEN 1 ELSE 0)
    IN  IF blocking
        THEN [preliminary_status |-> "rejected", confidence |-> 9000]
        ELSE IF ScoreAtLeast(sc, 7000) /\ conditional_factors = 0
        THEN [preliminary_status |-> "approved", confidence |-> 9000]
        ELSE IF ScoreAtLeast(sc, 6000) /\ conditional_factors <= 2
        THEN [preliminary_status |-> "approved", confidence |-> 7000]
        ELSE IF ScoreAtLeast(sc, 5000)
        THEN [preliminary_status |-> "conditional", confidence |-> 6000]
        ELSE IF ScoreAtLeast(sc, 3000)
        THEN [preliminary_status |-> "requires_review", confidence |-> 5000]
        ELSE [preliminary_status |-> "rejected", confidence |-> 8000]

SeqIf(c, q) == IF c THEN q ELSE <<>>

\* approval_ratio in millionths; approved_amount = requested_amount * ratio
determine_credit_conditions(dl, form_data, agg) ==
    IF dl.preliminary_status \in {"approved", "conditional"}
    THEN LET lvl == agg.financial.stability_level
             base == IF ~agg.financial.completed THEN 100
                     ELSE IF lvl = "good" THEN 95
                     ELSE IF lvl = "acceptable" THEN 85
                     ELSE IF lvl = "weak" THEN 70
                     ELSE 100
             risk == IF agg.risk.completed /\ agg.risk.risk_level = "high" THEN 80
                     ELSE IF agg.risk.completed /\ agg.risk.risk_level = "medium" THEN 90
                     ELSE 100
             rel == IF agg.relevance.completed /\ agg.relevance.relevance_level = "low"
                    THEN 85 ELSE 100
             ratio == base * risk * rel
             weak == agg.financial.completed /\ lvl = "weak"
             high == agg.risk.completed /\ agg.risk.risk_level = "high"
             legal_low == agg.legal.completed /\ agg.legal.score < 7000
             low_rel == agg.relevance.completed
                            /\ agg.relevance.relevance_level = "low"
             conditional == dl.preliminary_status = "conditional"
         IN  [approval_ratio |-> ratio,
              approved_amount |-> form_data.requested_amount * ratio,
              additional_conditions |->
                    SeqIf(weak, <<"monthly_financial_reporting">>)
                 \o SeqIf(legal_low, <<"fix_legal_remarks">>)
                 \o SeqIf(low_rel, <<"detail_marketing_strategy">>)
                 \o SeqIf(conditional, <<"additional_reporting", "financial_covenants">>),
              guarantees_required |->
                    SeqIf(high, <<"additional_collateral">>)
                 \o SeqIf(legal_low, <<"founders_surety">>),
              monitoring_requirements |->
                    SeqIf(weak, <<"enhanced_financial_monitoring">>)
                 \o SeqIf(conditional, <<"quarterly_project_reports",
                                         "targeted_use_monitoring">>)]
    ELSE [approval_ratio |-> 0, approved_amount |-> 0,
          additional_conditions |-> <<>>, guarantees_required |-> <<>>,
          monitoring_requirements |-> <<>>]

\* variant: a failed review call counts as a review that rejects
perform_llm_decision_review_rejecting(reply) ==
    IF reply.fault
    THEN [status |-> "error", validation |-> "rejected", conditions_ok |-> TRUE,
          additional_conditions |-> <<>>]
    ELSE [status |-> "success", validation |-> reply.validation,
          conditions_ok |-> reply.conditions_ok,
          additional_conditions |-> reply.additional_conditions]

\* what the LLM review call hands to finalize_decision
perform_llm_decision_review(reply) ==
    IF reply.fault
    THEN [status |-> "error", validation |-> "acceptable", conditions_ok |-> TRUE,
          additional_conditions |-> <<>>]
    ELSE [status |-> "success", validation |-> reply.validation,
          conditions_ok |-> reply.conditions_ok,
          additional_conditions |-> reply.additional_conditions]

\* every condition text of the model, in one fixed enumeration
ConditionTexts ==
    <<"monthly_financial_reporting", "fix_legal_remarks", "detail_marketing_strategy",
      "additional_reporting", "financial_covenants", "additional_collateral",
      "founders_surety", "enhanced_financial_monitoring", "quarterly_project_reports",
      "targeted_use_monitoring", "llm_extra">>

Range(q) == {q[i] : i \in 1..Len(q)}

\* variant: the list is not cut
TakeAll(q, n) == q

\* the first n items of q: q[:n]
Take(q, n) == SubSeq(q, 1, IF Len(q) < n THEN Len(q) ELSE n)

\* the list finalize_decision collects before set() is applied
all_conditions(cc, llm_review) ==
    cc.additional_conditions \o cc.guarantees_required \o cc.monitoring_requirements
        \o llm_review.additional_conditions

\* list(set(x)): the iteration order of a set of str depends on the hash
\* seed.  The orders of the model are the rotations of one enumeration, so
\* that every item can come first and every item can be the one cut off.
SetOrders(S) ==
    LET base == SelectSeq(ConditionTexts, LAMBDA c : c \in S)
        n == Len(base)
    IN  IF n = 0 THEN {<<>>}
        ELSE {[i \in 1..n |-> base[((i + k - 1) % n) + 1]] : k \in 0..(n - 1)}

\* maximum number of conditions in a final decision
MaxConditions == 10

finalize_decision(dl, cc, llm_review, hash_order) ==
    LET downgraded == llm_review.validation = "rejected"
                        /\ dl.preliminary_status = "approved"
        upgraded == llm_review.validation = "approved"
                        /\ dl.preliminary_status = "requires_review"
        final_status == IF downgraded THEN "requires_review"
                        ELSE IF upgraded THEN "conditional"
                        ELSE dl.preliminary_status
        confidence == IF downgraded THEN (dl.confidence * 7) \div 10
                      ELSE IF upgraded THEN (dl.confidence * 11) \div 10
                      ELSE dl.confidence
    IN  [kind |-> "dict",
         status |-> final_status,
         confidence |-> IF confidence > One THEN One ELSE confidence,
         amount_approved |-> IF final_status # "rejected" THEN cc.approved_amount ELSE 0,
         has_amount |-> final_status # "rejected",
         conditions |-> Take(hash_order, MaxConditions),
         expires_at |-> final_status \in {"approved", "conditional"}]

\* the decision stored by the except branch of decision_node
DecisionFallback ==
    [kind |-> "dict", status |-> "requires_review", confidence |-> 0,
     amount_approved |-> 0, has_amount |-> FALSE,
     conditions |-> <<"manual_review_after_system_error">>, expires_at |-> FALSE]

\* set(all_conditions) raises when the review's additional_conditions is
\* not a list of hashable items
DecisionRaises(llm_review) == ~llm_review.conditions_ok

\* the conditions decision_node collects from state s0 and the review reply
CollectedConditions(s0, reply) ==
    LET agg == aggregate_analysis_results(s0)
        dl == apply_decision_logic(agg, calculate_overall_scoring(agg))
    IN  all_conditions(determine_credit_conditions(dl, s0.form_data, agg),
                       perform_llm_decision_review(reply))

decision_node(s0, reply, hash_order) ==
    LET s == update_processing_step(s0, "decision_making")
        agg == aggregate_analysis_results(s)
        sc == calculate_overall_scoring(agg)
        dl == apply_decision_logic(agg, sc)
        cc == determine_credit_conditions(dl, s.form_data, agg)
        llm_review == perform_llm_decision_review(reply)
        final_decision == finalize_decision(dl, cc, llm_review, hash_order)
    IN  IF DecisionRaises(llm_review)
        THEN update_processing_step(
                [s EXCEPT !.errors = Append(@, "Decision making failed"),
                          !.final_decision = DecisionFallback],
                "error")
        ELSE update_processing_step(
                [add_agent_reasoning(s, "decision_maker") EXCEPT
                    !.final_decision = final_decision],
                IF final_decision.status = "rejected" THEN "rejected" ELSE "completed")

(***************************************************************************)
(* Inputs of one run: what the sub-analyses of each stage and the LLM      *)
(* return.  fail = TRUE is an exception inside the node's try block.       *)
(***************************************************************************)
Sub(sc, e, w) == [score |-> sc, nErr |-> e, nWarn |-> w]

\* the same run of a stage with its LLM call raising
LlmFault(in) == [in EXCEPT !.llm.fault = TRUE]

VIn(f, form, pdf, llmScore, llmIssues) ==
    [fail |-> f, form |-> form, pdf |-> pdf,
     llm |-> [fault |-> FALSE, score |-> llmScore, nIssues |-> llmIssues]]

ValidationInputs ==
    { VIn(FALSE, Sub(10000, 0, 0), Sub(10000, 0, 0), 10000, 0),
      VIn(FALSE, Sub(6000, 2, 0), Sub(6000, 0, 0), 6000, 1),
      VIn(FALSE, Sub(8000, 0, 1), Sub(7000, 0, 0), 7000, 0),
      VIn(FALSE, Sub(5000, 0, 0), Sub(6000, 0, 1), 7000, 0),
      VIn(FALSE, Sub(9000, 2, 0), Sub(9000, 2, 0), 9000, 0),
      VIn(FALSE, Sub(9000, 5, 0), Sub(9000, 3, 0), 9000, 0),
      VIn(FALSE, Sub(7500, 0, 0), Sub(7500, 0, 0), 7500, 0),
      LlmFault(VIn(FALSE, Sub(10000, 0, 0), Sub(10000, 0, 0), 10000, 0)),
      VIn(TRUE, Sub(0, 0, 0), Sub(0, 0, 0), 0, 0) }

Part(sc, n) == [score |-> sc, nIssues |-> n]

LIn(f, company, documents, llmScore, llmConf, llmRisks, crit, compScore) ==
    [fail |-> f, critical |-> crit, company |-> company, documents |-> documents,
     llm |-> [fault |-> FALSE, score |-> llmScore, confidence |-> llmConf,
              nRisks |-> llmRisks,
              critical |-> crit],
     compliance |-> [score |-> compScore, nViolations |-> 0]]

LegalInputs ==
    { LIn(FALSE, Part(10000, 0), Part(10000, 0), 10000, 9000, 0, FALSE, 10000),
      LIn(FALSE, Part(8000, 0), Part(8000, 1), 8000, 6000, 0, FALSE, 8000),
      LIn(FALSE, Part(7500, 0), Part(7500, 0), 7500, 9000, 0, FALSE, 7500),
      LIn(FALSE, Part(5000, 1), Part(5000, 1), 5000, 6000, 1, FALSE, 5000),
      \* the LLM answer was not valid JSON: score 0.6, confidence 0.5
      LIn(FALSE, Part(10000, 0), Part(10000, 0), 6000, 5000, 1, FALSE, 10000),
      \* the LLM call failed, its message with and without a critical keyword
      LlmFault(LIn(FALSE, Part(10000, 0), Part(10000, 0), 10000, 9000, 0, FALSE, 10000)),
      LlmFault(LIn(FALSE, Part(10000, 0), Part(10000, 0), 10000, 9000, 0, TRUE, 10000)),
      \* the LLM answered {"confidence": null}
      LIn(FALSE, Part(8000, 0), Part(8000, 0), 8000, NotANumber, 0, FALSE, 8000),
      LIn(FALSE, Part(4000, 2), Part(4000, 2), 4000, 8000, 2, FALSE, 4000),
      LIn(FALSE, Part(9000, 0), Part(9000, 0), 9000, 9000, 1, TRUE, 9000),
      LIn(TRUE, Part(0, 0), Part(0, 0), 0, 0, 0, FALSE, 0),
      LIn(TRUE, Part(0, 0), Part(0, 0), 0, 0, 0, TRUE, 0) }

RIn(f, fin, mkt, op, mgmt, llmScore) ==
    [fail |-> f, financial |-> fin, market |-> mkt, operational |-> op,
     management |-> mgmt, llm |-> [fault |-> FALSE, risk_score |-> llmScore, confidence |-> 7000]]

RiskInputs ==
    { RIn(FALSE, 2000, 2000, 2000, 2000, 5000),
      RIn(FALSE, 5000, 5000, 5000, 5000, 5000),
      RIn(FALSE, 2500, 2500, 2500, 2500, 7500),
      RIn(FALSE, 7000, 6000, 6000, 5000, 7000),
      RIn(FALSE, 7000, 6000, 6000, 7000, 5000),
      RIn(FALSE, 9000, 9000, 9000, 9000, 9000),
      RIn(FALSE, 8500, 2000, 2000, 2000, 5000),
      LlmFault(RIn(FALSE, 2000, 2000, 2000, 2000, 5000)),
      RIn(TRUE, 0, 0, 0, 0, 0) }

QIn(f, mkt, inn, eco, pol, sus, llmScore, llmConf) ==
    [fail |-> f, market |-> mkt, innovation |-> inn, economic |-> eco,
     policy |-> pol, sustainability |-> sus,
     llm |-> [fault |-> FALSE, score |-> llmScore, confidence |-> llmConf]]

RelevanceInputs ==
    { QIn(FALSE, 10000, 10000, 10000, 10000, 10000, 10000, 7000),
      QIn(FALSE, 6000, 6000, 6000, 6000, 6000, 7000, 7000),
      QIn(FALSE, 8000, 8000, 8000, 8000, 5000, 9000, 7000),
      LlmFault(QIn(FALSE, 7000, 7000, 7000, 7000, 7000, 9000, 7000)),
      QIn(FALSE, 2000, 9000, 9000, 9000, 9000, 8000, 7000),
      QIn(FALSE, 4500, 4500, 4500, 4500, 4500, 5000, 7000),
      QIn(TRUE, 0, 0, 0, 0, 0, 0, 0) }

FIn(f, liq, dte, prof, cash, cred, debt, llmScore) ==
    [fail |-> f,
     ratios |-> [liquidity_ratio |-> liq, debt_to_equity |-> dte,
                 profitability |-> prof],
     cash_flow |-> cash, creditworthiness |-> cred, debt_capacity |-> debt,
     llm |-> [fault |-> FALSE, score |-> llmScore, confidence |-> 7000]]

FinancialInputs ==
    { FIn(FALSE, 10000, 0, 10000, 9000, 9000, 9000, 9000),
      FIn(FALSE, 15000, 5000, 5000, 7000, 7000, 7000, 7000),
      FIn(FALSE, 10000, 5000, 7500, 7500, 7500, 7500, 7500),
      FIn(FALSE, 10000, 5000, 5000, 6000, 6000, 6000, 7000),
      FIn(FALSE, 6000, 10000, 5000, 5000, 6000, 5000, 6000),
      FIn(FALSE, 2000, 20000, 1000, 2000, 2000, 2000, 2000),
      FIn(FALSE, 10000, 35000, 10000, 9000, 9000, 9000, 9000),
      LlmFault(FIn(FALSE, 10000, 0, 10000, 9000, 9000, 9000, 9000)),
      FIn(TRUE, 0, 0, 0, 0, 0, 0, 0) }

\* answers of the decision review call
Reply(f, validation, ok, conds) ==
    [fault |-> f, validation |-> validation, conditions_ok |-> ok,
     additional_conditions |-> conds]

ReviewReplies ==
    { Reply(FALSE, "approved", TRUE, <<>>),
      Reply(FALSE, "acceptable", TRUE, <<>>),
      Reply(FALSE, "rejected", TRUE, <<>>),
      \* additional_conditions holds an item set() cannot hash
      Reply(FALSE, "acceptable", FALSE, <<>>),
      \* a condition given twice, and one the node has collected itself
      Reply(FALSE, "acceptable", TRUE, <<"llm_extra", "fix_legal_remarks", "llm_extra">>),
      \* the review repeats every condition it was shown and adds its own
      Reply(FALSE, "approved", TRUE, ConditionTexts \o <<"llm_extra">>),
      Reply(TRUE, "", TRUE, <<>>) }

StageInputs(n) ==
    CASE n = "validator" -> ValidationInputs
      [] n = "legal_checker" -> LegalInputs
      [] n = "risk_manager" -> RiskInputs
      [] n = "relevance_checker" -> RelevanceInputs
      [] n = "financial_analyzer" -> FinancialInputs

RunNode(n, s, in) ==
    CASE n = "validator" -> validator_node(s, in)
      [] n = "legal_checker" -> legal_node(s, in)
      [] n = "risk_manager" -> risk_node(s, in)
      [] n = "relevance_checker" -> relevance_node(s, in)
      [] n = "financial_analyzer" -> financial_node(s, in)

(***************************************************************************)
(* The list objects of a snapshot.  A state dict holds references to its   *)
(* lists: {**state, ...} copies the references, a + [x] makes a new list,  *)
(* a.append(x) changes the list object itself.  heap is the sequence of    *)
(* list objects, refs says which object each key of the dict at hand       *)
(* refers to.                                                              *)
(***************************************************************************)
ListKeys == {"errors", "agent_reasoning", "warnings"}

\* the snapshot a node is given: one list object for each key
GivenRefs == [errors |-> 1, agent_reasoning |-> 2, warnings |-> 3]

HeapOf(s) ==
    [heap |-> <<s.errors, s.agent_reasoning, s.warnings>>, refs |-> GivenRefs]

\* update_processing_step: {**state, "current_step": ...}, the new dict
\* refers to the same list objects
step_lists(o) == o

\* add_agent_reasoning: state["agent_reasoning"] + [new_reasoning] is a new
\* list object, held by the new dict only
reasoning_lists(o, entry) ==
    [heap |-> Append(o.heap, Append(o.heap[o.refs.agent_reasoning], entry)),
     refs |-> [o.refs EXCEPT !.agent_reasoning = Len(o.heap) + 1]]

\* state[key].append(item): the list object itself grows
append_in_place(o, key, item) ==
    [o EXCEPT !.heap[o.refs[key]] = Append(@, item)]

\* the dict s read through the references refs
Deref(s, refs, heap) ==
    [s EXCEPT !.errors = heap[refs.errors],
              !.agent_reasoning = heap[refs.agent_reasoning],
              !.warnings = heap[refs.warnings]]

\* what a node does to the list objects: failed says that the except
\* branch ran, out is the state the node returned
NodeLists(s0, out, failed) ==
    LET o == step_lists(HeapOf(s0)) IN
    IF failed
    THEN append_in_place(o, "errors", out.errors[Len(out.errors)])
    ELSE step_lists(
            reasoning_lists(o, out.agent_reasoning[Len(out.agent_reasoning)]))

\* the snapshot the node was given, read after the node has returned
GivenAfter(s0, out, failed) ==
    Deref(s0, GivenRefs, NodeLists(s0, out, failed).heap)

\* the returned dict read through its own references
ReturnedLists(s0, out, failed) ==
    LET o == NodeLists(s0, out, failed) IN Deref(out, o.refs, o.heap)

(***************************************************************************)
(* Runs of several applications in one process (graph/workflow.py).  Each  *)
(* call of process_credit_application builds its own initial state and     *)
(* runs the shared compiled graph under thread_id = application_id.  runs  *)
(* holds what each executing call has in hand, threads the checkpoints by  *)
(* thread id, plans what the sub-analyses and LLM calls of each            *)
(* application answer.                                                     *)
(***************************************************************************)
\* variant: every run uses one thread id
thread_id_shared(application_id) == "app1"

\* workflow_config["configurable"]["thread_id"]
thread_id(application_id) == application_id

Plan(v, l, r, q, f, reply) ==
    [validator |-> v, legal_checker |-> l, risk_manager |-> r,
     relevance_checker |-> q, financial_analyzer |-> f, reply |-> reply]

GoodValidation == VIn(FALSE, Sub(10000, 0, 0), Sub(10000, 0, 0), 10000, 0)

GoodLegal == LIn(FALSE, Part(10000, 0), Part(10000, 0), 10000, 9000, 0, FALSE, 10000)

GoodRisk == RIn(FALSE, 2000, 2000, 2000, 2000, 5000)

GoodRelevance == QIn(FALSE, 10000, 10000, 10000, 10000, 10000, 10000, 7000)

GoodFinancial == FIn(FALSE, 10000, 0, 10000, 9000, 9000, 9000, 9000)

Plans ==
    { Plan(GoodValidation, GoodLegal, GoodRisk, GoodRelevance, GoodFinancial,
           Reply(FALSE, "approved", TRUE, <<>>)),
      Plan(GoodValidation, LlmFault(GoodLegal), GoodRisk, GoodRelevance,
           GoodFinancial, Reply(FALSE, "acceptable", TRUE, <<>>)),
      Plan(VIn(FALSE, Sub(8000, 0, 1), Sub(7000, 0, 0), 7000, 0), GoodLegal,
           RIn(TRUE, 0, 0, 0, 0, 0), GoodRelevance, GoodFinancial,
           Reply(TRUE, "", TRUE, <<>>)),
      Plan(GoodValidation, GoodLegal, GoodRisk, GoodRelevance,
           FIn(FALSE, 10000, 5000, 5000, 6000, 6000, 6000, 7000),
           Reply(FALSE, "rejected", TRUE, <<"llm_extra">>)) }

\* the order in which this process iterates a set of condition texts
HashOrder(S) == CHOOSE q \in SetOrders(S) : TRUE

\* the input of ainvoke: the initial state of the application
StartOf(id) ==
    [application_id |-> id, values |-> create_initial_state(1000),
     next |-> "validator"]

\* one step of the graph on what a run has in hand: node, router, edge
GraphStep(run, p) ==
    IF run.next \in StageNodes
    THEN LET s2 == RunNode(run.next, run.values, p[run.next])
             r == Router(run.next, s2)
         IN  IF r = "raise" THEN [run EXCEPT !.next = "RAISED"]
             ELSE [run EXCEPT !.values = s2, !.next = EdgeTarget(run.next, r)]
    ELSE [run EXCEPT
            !.values = decision_node(run.values, p.reply,
                          HashOrder(Range(CollectedConditions(run.values, p.reply)))),
            !.next = "END"]

\* the state an application reaches after k steps when it runs alone
RECURSIVE AloneAfter(_, _, _)
AloneAfter(id, p, k) ==
    IF k = 0 THEN StartOf(id)
    ELSE LET before == AloneAfter(id, p, k - 1)
         IN  IF before.next \in {"END", "RAISED"} THEN before
             ELSE GraphStep(before, p)

NoRun == [application_id |-> "none", values |-> create_initial_state(0),
          next |-> "none"]

PairIdle ==
    /\ runs = [id \in AppIds |-> NoRun]
    /\ threads = [id \in AppIds |-> NoRun]
    /\ plans = [id \in AppIds |-> Plan(GoodValidation, GoodLegal, GoodRisk,
                                      GoodRelevance, GoodFinancial,
                                      Reply(FALSE, "approved", TRUE, <<>>))]
    /\ steps = [id \in AppIds |-> 0]

EnvIdle == WsIdle /\ PairIdle /\ RetryIdle

(***************************************************************************)
(* The run of one application (thread_id = application_id).  state and     *)
(* next are the thread's checkpoint: the values written by the last        *)
(* finished step and the node that step routed to.  proc says whether a    *)
(* call of the compiled graph is executing.                                *)
(***************************************************************************)
NoRet == [kind |-> "none", values |-> create_initial_state(0)]

Init ==
    /\ state \in {create_initial_state(a) : a \in RequestedAmounts}
    /\ next = "validator"
    /\ proc = "running"
    /\ route = "none"
    /\ ret = NoRet
    /\ resumes = 0
    /\ given = state
    /\ EnvIdle

\* one step of the graph: the node, then the router on the node's output,
\* then the checkpoint.  A router that raises aborts the step; the call
\* raises and the checkpoint stays where it was.
StageStep(n) ==
    /\ proc = "running"
    /\ next = n
    /\ \E in \in StageInputs(n) :
        LET s2 == RunNode(n, state, in)
            r == Router(n, s2)
        IN  /\ route' = r
            /\ given' = GivenAfter(state, s2, in.fail)
            /\ IF r = "raise"
               THEN /\ proc' = "idle"
                    /\ ret' = [kind |-> "raised", values |-> create_initial_state(0)]
                    /\ UNCHANGED <<state, next>>
               ELSE /\ state' = s2
                    /\ next' = EdgeTarget(n, r)
                    /\ proc' = IF next' = "END" THEN "idle" ELSE "running"
                    /\ ret' = IF next' = "END"
                              THEN [kind |-> "final", values |-> s2] ELSE ret
    /\ UNCHANGED <<resumes, envvars>>

Validate == StageStep("validator")

LegalCheck == StageStep("legal_checker")

RiskAnalyze == StageStep("risk_manager")

RelevanceCheck == StageStep("relevance_checker")

FinancialAnalyze == StageStep("financial_analyzer")

\* decision_maker, then the edge to END
Decide ==
    /\ proc = "running"
    /\ next = "decision_maker"
    /\ \E reply \in ReviewReplies :
        \E hash_order \in SetOrders(Range(CollectedConditions(state, reply))) :
            /\ state' = decision_node(state, reply, hash_order)
            /\ given' = GivenAfter(state, state',
                                   DecisionRaises(perform_llm_decision_review(reply)))
            /\ ret' = [kind |-> "final", values |-> state']
    /\ next' = "END"
    /\ proc' = "idle"
    /\ UNCHANGED <<route, resumes, envvars>>

\* the executing call is interrupted (the process dies or is cancelled);
\* what the running step did is lost, the checkpoint stays
Interrupt ==
    /\ proc = "running"
    /\ proc' = "idle"
    /\ ret' = NoRet
    /\ UNCHANGED <<state, next, route, resumes, given, envvars>>

\* the checkpointer's write after the running step raises: ainvoke raises,
\* process_credit_application logs and re-raises; the thread keeps its last
\* written checkpoint
SaveFails ==
    /\ proc = "running"
    /\ proc' = "idle"
    /\ ret' = [kind |-> "save_failed", values |-> create_initial_state(0)]
    /\ UNCHANGED <<state, next, route, resumes, given, envvars>>

\* resume_application_processing: ainvoke(None, config) goes on from the
\* checkpoint's next node
\* variant: the resumed call starts at the entry point again
ResumeFromEntry(n) == "validator"

ResumeNext(n) == n

Resume ==
    /\ proc = "idle"
    /\ next # "END"
    /\ resumes < MaxResumes
    /\ resumes' = resumes + 1
    /\ next' = ResumeNext(next)
    /\ proc' = "running"
    /\ ret' = NoRet
    /\ given' = state
    /\ UNCHANGED <<state, route, envvars>>

\* resume_application_processing on a thread whose graph has ended: no
\* node is left to run, the stored values are returned
ResumeEnded ==
    /\ proc = "idle"
    /\ next = "END"
    /\ ret' = [kind |-> "stored", values |-> state]
    /\ UNCHANGED <<state, next, proc, route, resumes, given, envvars>>

\* process_credit_application with the same application_id: a new initial
\* state is the graph's input, every key of the thread is overwritten and
\* the run starts at the entry point
Process ==
    /\ proc = "idle"
    /\ \E a \in RequestedAmounts : state' = create_initial_state(a)
    /\ next' = "validator"
    /\ proc' = "running"
    /\ route' = "none"
    /\ ret' = NoRet
    /\ resumes' = 0
    /\ given' = state'
    /\ UNCHANGED envvars

Next ==
    \/ Validate
    \/ LegalCheck
    \/ RiskAnalyze
    \/ RelevanceCheck
    \/ FinancialAnalyze
    \/ Decide
    \/ Interrupt
    \/ SaveFails
    \/ Resume
    \/ ResumeEnded
    \/ Process

Spec == Init /\ [][Next]_vars

(***************************************************************************)
(* The conditional edges on their own: a router applied to any state the   *)
(* stage before it may hand over, also one without the stage's result.     *)
(***************************************************************************)
ValidationShapes ==
    {NoValidation, [NoValidation EXCEPT !.kind = "empty"]}
    \cup [kind : {"dict"}, status : {"success", "warning", "error", "ERROR"},
          score : {5900, 6000, 6100}, nErr : {0, 5, 6}, nWarn : {0, 4}]

LegalShapes ==
    {NoLegal, [NoLegal EXCEPT !.kind = "empty"]}
    \cup [kind : {"dict"},
          status : {"approved", "conditional", "rejected", "REJECTED", "failed",
                    "blocked", "error"},
          score : {0, 4900, 5000, 5100}, confidence : {0, 5900, 6000, NotANumber},
          nRisks : {1}, critical : BOOLEAN]

RiskShapes ==
    {NoRisk, [NoRisk EXCEPT !.kind = "empty"]}
    \cup [kind : {"dict"}, status : {"approved", "error"}, score : {0, 3900, 4000, 5000},
          confidence : {7000},
          risk_level : {"", "low", "high", "critical", "Critical", "ochen vysokij",
                        "nepriemlemyj"},
          financial_risk : {0, 7000, 8000, 8100}, market_risk : {0, 7100},
          operational_risk : {0, 7100}]

RelevanceShapes ==
    {NoRelevance, [NoRelevance EXCEPT !.kind = "empty"]}
    \cup [kind : {"dict"}, status : {"approved", "error"}, score : {0, 4900, 5000, 5100},
          confidence : {0, 4900, 7000}, relevance_level : {"low", "unknown"},
          market_relevance : {0, 2900, 3000}, economic_impact : {0, 3900, 4000}]

FinancialShapes ==
    {NoFinancial, [NoFinancial EXCEPT !.kind = "empty"]}
    \cup [kind : {"dict"}, status : {"approved", "error"}, score : {0, 4900, 5000},
          confidence : {7000}, stability_level : {"weak", "critical"},
          debt_to_equity : {0, 30000, 30100}, liquidity_ratio : {0, 4900, 5000},
          cash_flow_score : {0, 2900, 3000}, financial_stability : {0, 3900, 4000}]

\* the result the router of stage n reads
StageResult(n, s) ==
    CASE n = "validator" -> s.validation_result
      [] n = "legal_checker" -> s.legal_analysis
      [] n = "risk_manager" -> s.risk_analysis
      [] n = "relevance_checker" -> s.relevance_analysis
      [] n = "financial_analyzer" -> s.financial_analysis

\* current_step as the node of stage n leaves it (exception path, normal path)
StepsAfter(n) ==
    CASE n = "validator" -> {"validating", "validation_complete"}
      [] n = "legal_checker" -> {"legal_checking", "legal_check_complete"}
      [] n = "risk_manager" -> {"risk_analyzing", "risk_analysis_complete"}
      [] n = "relevance_checker" -> {"relevance_checking", "relevance_check_complete"}
      [] n = "financial_analyzer" -> {"financial_analyzing", "financial_analysis_complete"}

EdgeStates(n) ==
    LET s0 == create_initial_state(1000) IN
    CASE n = "validator" ->
            {[s0 EXCEPT !.validation_result = r, !.current_step = c] :
                r \in ValidationShapes, c \in StepsAfter(n)}
      [] n = "legal_checker" ->
            {[s0 EXCEPT !.legal_analysis = r, !.current_step = c] :
                r \in LegalShapes, c \in StepsAfter(n)}
      [] n = "risk_manager" ->
            {[s0 EXCEPT !.risk_analysis = r, !.current_step = c] :
                r \in RiskShapes, c \in StepsAfter(n)}
      [] n = "relevance_checker" ->
            {[s0 EXCEPT !.relevance_analysis = r, !.current_step = c] :
                r \in RelevanceShapes, c \in StepsAfter(n)}
      [] n = "financial_analyzer" ->
            {[s0 EXCEPT !.financial_analysis = r, !.current_step = c] :
                r \in FinancialShapes, c \in StepsAfter(n)}

InitEdges ==
    /\ next \in StageNodes
    /\ state \in EdgeStates(next)
    /\ proc = "routing"
    /\ route = "none"
    /\ ret = NoRet
    /\ resumes = 0
    /\ given = state
    /\ EnvIdle

\* the conditional edge after node `next`: the router's answer picks the
\* target; the state is handed on as it is
ApplyEdge ==
    /\ proc = "routing"
    /\ route' = Router(next, state)
    /\ next' = IF route' = "raise" THEN next ELSE EdgeTarget(next, route')
    /\ proc' = "routed"
    /\ UNCHANGED <<state, ret, resumes, given, envvars>>

NextEdges == ApplyEdge

SpecEdges == InitEdges /\ [][NextEdges]_vars

(***************************************************************************)
(* main.py: ConnectionManager, websocket_endpoint and the background task  *)
(* that submit_application starts.  A socket is "new" before its handler   *)
(* runs, "open" while the handler waits in receive_text, "broken" once the *)
(* peer is gone and the handler has not yet been woken, "closed" after the *)
(* handler's finally block.                                                *)
(***************************************************************************)
\* ConnectionManager.disconnect
disconnect(conns, id) == [conns EXCEPT ![id] = NoSocket]

\* variant: a failed send_json is not caught
send_update_unguarded(conns, socks, id, ok) ==
    IF conns[id] = NoSocket
    THEN [connections |-> conns, result |-> "no_client", raised |-> FALSE]
    ELSE IF socks[conns[id]].st = "open" /\ ok
    THEN [connections |-> conns, result |-> "sent", raised |-> FALSE]
    ELSE [connections |-> conns, result |-> "failed", raised |-> TRUE]

\* ConnectionManager.send_update; ok says whether send_json on an open
\* socket succeeds (on any other socket it raises)
send_update(conns, socks, id, ok) ==
    IF conns[id] = NoSocket
    THEN [connections |-> conns, result |-> "no_client", raised |-> FALSE]
    ELSE IF socks[conns[id]].st = "open" /\ ok
    THEN [connections |-> conns, result |-> "sent", raised |-> FALSE]
    ELSE [connections |-> disconnect(conns, id), result |-> "failed",
          raised |-> FALSE]

\* how process_credit_application ends: the current_step of the state it
\* returns, or "raised"
PipelineOutcomes == {"completed", "rejected", "error", "raised"}

\* submit_application: asyncio.create_task(process_application_background())
Submit(id) ==
    /\ task[id] = "none"
    /\ task' = [task EXCEPT ![id] = "processing"]
    /\ UNCHANGED <<active_connections, sockets, delivered, outcome, notified, nonws>>

\* websocket_endpoint up to its receive loop: ConnectionManager.connect
connect(ws, id) ==
    /\ sockets[ws].st = "new"
    /\ sockets' = [sockets EXCEPT ![ws] = [st |-> "open", app |-> id]]
    /\ active_connections' = [active_connections EXCEPT ![id] = ws]
    /\ UNCHANGED <<delivered, task, outcome, notified, nonws>>

\* the peer goes away
ClientCloses(ws) ==
    /\ sockets[ws].st = "open"
    /\ sockets' = [sockets EXCEPT ![ws].st = "broken"]
    /\ UNCHANGED <<active_connections, delivered, task, outcome, notified, nonws>>

\* websocket_endpoint: receive_text raises, the loop breaks, the finally
\* block calls manager.disconnect(application_id)
EndpointExit(ws) ==
    /\ sockets[ws].st = "broken"
    /\ sockets' = [sockets EXCEPT ![ws].st = "closed"]
    /\ active_connections' = disconnect(active_connections, sockets[ws].app)
    /\ UNCHANGED <<delivered, task, outcome, notified, nonws>>

\* process_application_background: process_credit_application returns or
\* raises
PipelineEnds(id) ==
    /\ task[id] = "processing"
    /\ \E o \in PipelineOutcomes : outcome' = [outcome EXCEPT ![id] = o]
    /\ task' = [task EXCEPT ![id] = "notifying"]
    /\ UNCHANGED <<active_connections, sockets, delivered, notified, nonws>>

\* process_application_background: the final_decision update, or the error
\* update of the except branch
Notify(id) ==
    /\ task[id] = "notifying"
    /\ \E ok \in BOOLEAN :
        LET r == send_update(active_connections, sockets, id, ok)
            message == IF outcome[id] = "raised" THEN "error" ELSE "final_decision"
        IN  /\ active_connections' = r.connections
            /\ delivered' = IF r.result = "sent"
                            THEN [delivered EXCEPT ![active_connections[id]] =
                                                        Append(@, message)]
                            ELSE delivered
            /\ notified' = [notified EXCEPT ![id] = r.result]
            /\ task' = [task EXCEPT ![id] = IF r.raised THEN "failed" ELSE "done"]
    /\ UNCHANGED <<sockets, outcome, nonws>>

InitWs ==
    /\ state = create_initial_state(0)
    /\ next = "validator"
    /\ proc = "idle"
    /\ route = "none"
    /\ ret = NoRet
    /\ resumes = 0
    /\ given = state
    /\ WsIdle
    /\ PairIdle
    /\ RetryIdle

NextWs ==
    \/ \E id \in AppIds : Submit(id)
    \/ \E ws \in Sockets, id \in AppIds : connect(ws, id)
    \/ \E ws \in Sockets : ClientCloses(ws)
    \/ \E ws \in Sockets : EndpointExit(ws)
    \/ \E id \in AppIds : PipelineEnds(id)
    \/ \E id \in AppIds : Notify(id)

SpecWs == InitWs /\ [][NextWs]_vars

(***************************************************************************)
(* The interleaved runs of the applications.                               *)
(***************************************************************************)
\* process_credit_application(application_id, ...): the initial state is
\* the graph's input and the first checkpoint of the thread
ProcessStart(id) ==
    /\ runs[id] = NoRun
    /\ runs' = [runs EXCEPT ![id] = StartOf(id)]
    /\ threads' = [threads EXCEPT ![thread_id(id)] = StartOf(id)]
    /\ UNCHANGED <<plans, steps, nonpair>>

\* one step of the run of application id, then its checkpoint
RunStep(id) ==
    /\ runs[id].next \in Nodes
    /\ LET after == GraphStep(runs[id], plans[id])
       IN  /\ runs' = [runs EXCEPT ![id] = after]
           /\ threads' = IF after.next = "RAISED" THEN threads
                         ELSE [threads EXCEPT ![thread_id(id)] = after]
    /\ steps' = [steps EXCEPT ![id] = @ + 1]
    /\ UNCHANGED <<plans, nonpair>>

InitPair ==
    /\ state = create_initial_state(0)
    /\ next = "validator"
    /\ proc = "idle"
    /\ route = "none"
    /\ ret = NoRet
    /\ resumes = 0
    /\ given = state
    /\ WsIdle
    /\ runs = [id \in AppIds |-> NoRun]
    /\ threads = [id \in AppIds |-> NoRun]
    /\ plans \in [AppIds -> Plans]
    /\ steps = [id \in AppIds |-> 0]
    /\ RetryIdle

NextPair ==
    \/ \E id \in AppIds : ProcessStart(id)
    \/ \E id \in AppIds : RunStep(id)

SpecPair == InitPair /\ [][NextPair]_vars

(***************************************************************************)
(* services/llm_service.py: LLMService.call and call_with_tools.  The two  *)
(* methods run the same loop around provider.call and                      *)
(* provider.call_with_tools.  llm_call is the frame of one call: attempt   *)
(* is the loop variable, calls counts the provider calls made, sleeps      *)
(* lists the asyncio.sleep durations, log the exceptions of the failed     *)
(* attempts.                                                               *)
(***************************************************************************)
Methods == {"call", "call_with_tools"}

\* what a provider call may raise
ProviderErrors == {"timeout", "rate_limit", "server_error"}

\* 2 ** attempt
Backoff(attempt) == 2 ^ attempt

\* variant: the loop waits after every failed attempt
SleepsAfterEvery(attempt, retry_attempts) == attempt < retry_attempts

\* if attempt < retry_attempts - 1
SleepsAfter(attempt, retry_attempts) == attempt < retry_attempts - 1

\* for attempt in range(retry_attempts): with no attempt to make the loop
\* body never runs and "raise last_exception" raises None, a TypeError
LoopEnter ==
    /\ llm_call.pc = "start"
    /\ llm_call' = IF llm_call.retry_attempts > 0
              THEN [llm_call EXCEPT !.pc = "calling"]
              ELSE [llm_call EXCEPT !.pc = "raised", !.raised = "TypeError"]
    /\ UNCHANGED nonretry

\* the provider answers: return response
ProviderReturns ==
    /\ llm_call.pc = "calling"
    /\ llm_call' = [llm_call EXCEPT !.calls = @ + 1, !.pc = "returned", !.response = "response"]
    /\ UNCHANGED nonretry

\* the provider raises: remember the exception, wait if an attempt is
\* left, otherwise leave the loop and raise last_exception
ProviderRaises ==
    /\ llm_call.pc = "calling"
    /\ \E e \in ProviderErrors :
        LET failed == [llm_call EXCEPT !.calls = @ + 1, !.last_exception = e,
                                  !.log = Append(@, e)]
        IN  llm_call' = IF SleepsAfter(llm_call.attempt, llm_call.retry_attempts)
                   THEN [failed EXCEPT !.pc = "sleeping",
                                       !.sleeps = Append(@, Backoff(llm_call.attempt))]
                   ELSE IF llm_call.attempt + 1 < llm_call.retry_attempts
                   THEN [failed EXCEPT !.attempt = @ + 1]
                   ELSE [failed EXCEPT !.pc = "raised", !.raised = e]
    /\ UNCHANGED nonretry

\* asyncio.sleep returns: the next iteration of the loop, or its end
Wake ==
    /\ llm_call.pc = "sleeping"
    /\ llm_call' = IF llm_call.attempt + 1 < llm_call.retry_attempts
              THEN [llm_call EXCEPT !.attempt = @ + 1, !.pc = "calling"]
              ELSE [llm_call EXCEPT !.pc = "raised", !.raised = llm_call.last_exception]
    /\ UNCHANGED nonretry

InitRetry ==
    /\ state = create_initial_state(0)
    /\ next = "validator"
    /\ proc = "idle"
    /\ route = "none"
    /\ ret = NoRet
    /\ resumes = 0
    /\ given = state
    /\ WsIdle
    /\ PairIdle
    /\ llm_call \in {[RetryFrame EXCEPT !.method = m, !.retry_attempts = n, !.pc = "start"] :
                    m \in Methods, n \in 0..MaxAttempts}

NextRetry ==
    \/ LoopEnter
    \/ ProviderReturns
    \/ ProviderRaises
    \/ Wake

\* the event loop runs the coroutine on: a provider call returns or raises
\* (the client has a request timeout), a sleep ends
SpecRetry == InitRetry /\ [][NextRetry]_vars /\ WF_vars(NextRetry)

(***************************************************************************)
(* Properties.                                                             *)
(***************************************************************************)
TerminalSteps == {"completed", "rejected", "error"}

\* C1: in every reachable state final_decision is non-null exactly when
\* current_step is completed or rejected
C1_DecisionIffCompletedOrRejected ==
    (state.final_decision.kind # "none")
        <=> (state.current_step \in {"completed", "rejected"})

\* the stage of node n ran through its normal path: its result is stored
\* and is not the result of the exception path
RanNormally(n, s) ==
    /\ StageResult(n, s).kind = "dict"
    /\ CASE n = "validator" -> s.validation_result # ValidationFallback
         [] OTHER -> StageResult(n, s).status # "error"

RECURSIVE TrailOf(_, _)
\* one audit entry for each of the stages i..5 that ran normally, in the
\* order of the graph
TrailOf(i, s) ==
    IF i > Len(Stages) THEN <<>>
    ELSE (IF RanNormally(Stages[i], s) THEN <<Stages[i]>> ELSE <<>>)
            \o TrailOf(i + 1, s)

ExpectedTrail(s) ==
    TrailOf(1, s)
        \o (IF s.final_decision.kind = "dict" /\ s.current_step # "error"
            THEN <<"decision_maker">> ELSE <<>>)

\* C2: interrupted and resumed or not, the audit trail holds one entry for
\* each stage that ran, in graph order and never twice, and the node that
\* runs next is one whose result (and every later stage's result) is not
\* there yet, while every stage before it has its result
C2_ResumeContinuesFromCheckpoint ==
    /\ state.agent_reasoning = ExpectedTrail(state)
    /\ next \in Nodes => state.final_decision.kind = "none"
    /\ next \in StageNodes =>
        \A i \in 1..Len(Stages) :
            (StageResult(Stages[i], state).kind = "none") <=> (i >= StageIndex(next))

\* a run that was interrupted and resumed has ended with all six entries
C2_Witness ==
    /\ resumes >= 1
    /\ next = "END"
    /\ state.agent_reasoning =
        <<"validator", "legal_checker", "risk_manager", "relevance_checker",
          "financial_analyzer", "decision_maker">>

\* C3: once an application is terminal, running or resuming it changes
\* nothing in its state and hands back the stored final state
C3_TerminalIsNoOp ==
    [][state.current_step \in TerminalSteps =>
        /\ state' = state
        /\ ret'.kind # "none" => ret'.values = state]_vars

C6_RejectRouteGivesRejected ==
    (route = "reject" /\ next = "END") =>
        /\ state.final_decision.status = "rejected"
        /\ state.current_step = "rejected"

\* C7: the decision step always ends with current_step completed or
\* rejected, never error
C7_DecisionNeverErrored ==
    [][next = "decision_maker" /\ next' = "END" =>
        state'.current_step \in {"completed", "rejected"}]_vars

\* a score exactly at the stage's minimum, and none of the router's other
\* rejection conditions
AtThreshold(n, s) ==
    LET r == StageResult(n, s) IN
    /\ r.kind = "dict"
    /\ CASE n = "validator" ->
                /\ r.score = ValidationMinScore
                /\ Lower(r.status) # "error"
                /\ r.nErr <= 5
         [] n = "legal_checker" ->
                /\ r.score = LegalMinScore
                /\ ~r.critical
                /\ Lower(r.status) \notin {"rejected", "failed", "blocked"}
                /\ r.confidence # NotANumber
                /\ r.confidence >= LegalMinConfidence
         [] n = "risk_manager" ->
                /\ r.score = RiskMinScore
                /\ Lower(r.risk_level) \notin {"critical", "ochen vysokij", "nepriemlemyj"}
                /\ r.financial_risk <= 8000
                /\ Cardinality({k \in {"financial_risk", "market_risk",
                                       "operational_risk"} : r[k] > 7000}) < 2
         [] n = "relevance_checker" ->
                /\ r.score = RelevanceMinScore
                /\ r.market_relevance >= 3000
                /\ r.economic_impact >= 4000
         [] n = "financial_analyzer" ->
                /\ r.score = FinancialMinScore
                /\ r.debt_to_equity <= 30000
                /\ r.liquidity_ratio >= 5000
                /\ r.cash_flow_score >= 3000
                /\ r.financial_stability >= 4000

\* C8: a result whose score equals the router's minimum and that meets no
\* other rejection condition is routed as continue
C8_ThresholdContinues ==
    [][(proc = "routing" /\ AtThreshold(next, state)) => route' = "continue"]_vars

\* a validation result with score 0.6 has been routed on to the legal stage
C8_Witness ==
    /\ proc = "routed"
    /\ state.validation_result.kind = "dict"
    /\ state.validation_result.score = ValidationMinScore
    /\ route = "continue"
    /\ next = "legal_checker"

\* C9: a risk result whose level is critical is routed as reject, whatever
\* its score and component risks are
C9_CriticalRiskRejects ==
    [][(/\ proc = "routing"
        /\ next = "risk_manager"
        /\ state.risk_analysis.kind = "dict"
        /\ Lower(state.risk_analysis.risk_level) = "critical") =>
            route' = "reject"]_vars

\* a critical risk result whose numbers alone would pass has been rejected
C9_Witness ==
    /\ proc = "routed"
    /\ state.risk_analysis.kind = "dict"
    /\ state.risk_analysis.risk_level = "critical"
    /\ state.risk_analysis.score = 5000
    /\ state.risk_analysis.financial_risk = 0
    /\ state.risk_analysis.market_risk = 0
    /\ state.risk_analysis.operational_risk = 0
    /\ route = "reject"
    /\ next = "decision_maker"

\* C10: every router answers continue, reject or error for every state
\* (route is "none" only before the first router has been asked)
C10_RoutersTotal ==
    route \in {"none", "continue", "reject", "error"}

\* a stage that has no result or whose result has an error status
FailedStage(n, s) ==
    \/ StageResult(n, s).kind # "dict"
    \/ Lower(StageResult(n, s).status) = "error"

CriticalFailures(s) == Cardinality({n \in StageNodes : FailedStage(n, s)})

\* the overall score the decision node computes from the stage results of s
OverallScore(s) == calculate_overall_scoring(aggregate_analysis_results(s))

\* C11: a final decision made while at least three of the five stages have
\* no result or an error status is a rejection
C11_FailureFloor ==
    (state.final_decision.kind = "dict" /\ CriticalFailures(state) >= 3)
        => state.final_decision.status = "rejected"

\* C12: a final decision made on an overall score below 0.3 is a rejection,
\* whatever the review answered
C12_ScoreFloor ==
    (state.final_decision.kind = "dict" /\ ~ScoreAtLeast(OverallScore(state), 3000))
        => state.final_decision.status = "rejected"

Tier(status) ==
    CASE status = "rejected" -> 0
      [] status = "requires_review" -> 1
      [] status = "conditional" -> 2
      [] status = "approved" -> 3

\* validation scores that pass the validation router
ScoreGrid == {6000, 7000, 8000, 9000, 10000}

\* the state s with another validation score: the failure indicators stay,
\* only the overall score moves
WithValidationScore(s, x) == [s EXCEPT !.validation_result.score = x]

\* the status decision_node gives for state s and review answer reply
DecidedStatus(s, reply) ==
    decision_node(s, reply, <<>>).final_decision.status

\* C13: of two decision inputs that differ in the score only, the one with
\* the higher score never gets the lower tier, for the same review answer
C13_TierMonotonic ==
    (next = "decision_maker" /\ state.legal_analysis.kind = "dict") =>
        \A reply \in {r \in ReviewReplies : r.conditions_ok} :
            \A x, y \in ScoreGrid :
                x <= y =>
                    Tier(DecidedStatus(WithValidationScore(state, x), reply))
                        <= Tier(DecidedStatus(WithValidationScore(state, y), reply))

\* C14: when all five stages have ended without failure with score 0.75,
\* the decision is approved with the whole requested amount
C14_AllThreeQuarters ==
    (/\ state.final_decision.kind = "dict"
     /\ \A n \in StageNodes :
            ~FailedStage(n, state) /\ StageResult(n, state).score = 7500) =>
        /\ state.final_decision.status = "approved"
        /\ state.final_decision.amount_approved
                = state.form_data.requested_amount * 1000000

\* the score a stage contributes: 0 when the stage failed
StageScore(n, s) == IF FailedStage(n, s) THEN 0 ELSE StageResult(n, s).score

StageWeight(n) ==
    CASE n = "validator" -> Weight("validation")
      [] n = "legal_checker" -> Weight("legal")
      [] n = "risk_manager" -> Weight("risk")
      [] n = "relevance_checker" -> Weight("relevance")
      [] n = "financial_analyzer" -> Weight("financial")

\* sum over the five stages of weight (percent) times score
WeightedSum(s) ==
    SumOver(StageNodes, [n \in StageNodes |-> StageWeight(n) * StageScore(n, s)])

\* C15: the overall score is max(0, weightedSum - 0.1 * criticalFailures)
\* (the score being num / den and den 100 times the weight of the stages
\* that have a result, both sides are taken times den)
C15_PenaltyFormula ==
    state.final_decision.kind = "dict" =>
        LET sc == OverallScore(state)
            penalised == WeightedSum(state) - 100 * 1000 * CriticalFailures(state)
            expected == IF penalised < 0 THEN 0 ELSE penalised
        IN  IF sc.den = 1 THEN sc.num * 100 = expected
            ELSE sc.num = (sc.den \div 100) * expected

\* C16: the approved share of the requested amount goes down with the tier:
\* everything for approved, less for conditional, less again but not
\* nothing for requires_review, nothing for rejected
C16_AmountByTier ==
    state.final_decision.kind = "dict" =>
        LET d == state.final_decision
            whole == state.form_data.requested_amount * 1000000
        IN  /\ d.status = "approved" => d.amount_approved = whole
            /\ d.status = "conditional" =>
                    (0 < d.amount_approved /\ d.amount_approved < whole)
            /\ d.status = "requires_review" =>
                    (0 < d.amount_approved /\ d.amount_approved < whole)
            /\ d.status = "rejected" => (~d.has_amount /\ d.amount_approved = 0)

\* C17: the conditions of a final decision are at most ten and no text is
\* there twice
C17_ConditionsBoundedDistinct ==
    state.final_decision.kind = "dict" =>
        LET c == state.final_decision.conditions IN
        /\ Len(c) <= 10
        /\ \A i, j \in 1..Len(c) : i # j => c[i] # c[j]

\* a decision whose list was cut to ten, the review's own condition among
\* them
C17_Witness ==
    /\ state.final_decision.kind = "dict"
    /\ Len(state.final_decision.conditions) = 10
    /\ "llm_extra" \in Range(state.final_decision.conditions)

\* the stages that have executed: their result is stored
ExecutedStages(s) == {n \in StageNodes : StageResult(n, s).kind = "dict"}

\* C18: the audit trail has an entry for every stage that has executed, by
\* its normal or its failure path, and at most one more from the decision
C18_AuditCoversStages ==
    /\ Len(state.agent_reasoning) >= Cardinality(ExecutedStages(state))
    /\ Len(state.agent_reasoning) <= Cardinality(ExecutedStages(state)) + 1

\* every stage before the i-th has its result and was routed continue
EarlierContinued(i, s) ==
    \A k \in 1..(i - 1) :
        /\ StageResult(Stages[k], s).kind = "dict"
        /\ Router(Stages[k], s) = "continue"

\* the stages are met in the order of the graph
StageOrderKept ==
    /\ \A i \in 1..Len(Stages) :
            StageResult(Stages[i], state).kind = "dict" => EarlierContinued(i, state)
    /\ next \in StageNodes =>
            /\ EarlierContinued(StageIndex(next), state)
            /\ StageResult(next, state).kind = "none"

\* a step of a running call writes no result but the one of its own node,
\* and that one was not there before
OwnResultOnly ==
    proc = "running" =>
        \A n \in StageNodes :
            StageResult(n, state') # StageResult(n, state) =>
                (n = next /\ StageResult(n, state).kind = "none")

\* C19: stages run in the fixed order only and none is skipped: a result is
\* there only if every earlier stage has its result and routed continue,
\* and no step writes the result of another stage or writes one again
C19_FixedStageOrder == [][StageOrderKept /\ StageOrderKept' /\ OwnResultOnly]_vars

\* all five stages have run one after the other
C19_Witness ==
    /\ \A n \in StageNodes : StageResult(n, state).kind = "dict"
    /\ next = "decision_maker"
    /\ route = "continue"

\* C20: a node never changes the snapshot it was given, nor a list that
\* snapshot holds: read after the step, the snapshot is what it was before
C20_CopyOnWrite ==
    [][(proc = "running" /\ given' # given) => given' = state]_vars

(***************************************************************************)
(* Error handling of the LLM call.                                         *)
(***************************************************************************)
CompleteStep(n) ==
    CASE n = "validator" -> "validation_complete"
      [] n = "legal_checker" -> "legal_check_complete"
      [] n = "risk_manager" -> "risk_analysis_complete"
      [] n = "relevance_checker" -> "relevance_check_complete"
      [] n = "financial_analyzer" -> "financial_analysis_complete"

PreliminaryStatus(s) ==
    LET agg == aggregate_analysis_results(s)
    IN  apply_decision_logic(agg, calculate_overall_scoring(agg)).preliminary_status

\* C21: a failed LLM call does not end the pipeline in an error state.  In
\* a stage the node still finishes on its normal path with a combined
\* result (no error recorded, step "..._complete", a router answer other
\* than error); in the decision step the final status is the preliminary
\* status and the step ends completed or rejected.
C21_LlmFaultDegrades ==
    /\ (proc = "running" /\ next \in StageNodes) =>
        \A in \in StageInputs(next) :
            (in.llm.fault /\ ~in.fail) =>
                LET s2 == RunNode(next, state, in) IN
                    /\ s2.current_step = CompleteStep(next)
                    /\ s2.errors = state.errors
                    /\ StageResult(next, s2).kind = "dict"
                    /\ Router(next, s2) \in {"continue", "reject"}
    /\ (proc = "running" /\ next = "decision_maker") =>
        \A reply \in ReviewReplies :
            reply.fault =>
                \A hash_order \in SetOrders(Range(CollectedConditions(state, reply))) :
                    LET s2 == decision_node(state, reply, hash_order) IN
                        /\ s2.final_decision.status = PreliminaryStatus(state)
                        /\ s2.current_step \in {"completed", "rejected"}
                        /\ s2.errors = state.errors

\* a run whose validation LLM call failed has ended with an approval
C21_Witness ==
    /\ next = "END"
    /\ \E in \in ValidationInputs :
        /\ in.llm.fault
        /\ state.validation_result =
               combine_validation_results(in.form, in.pdf,
                                          perform_llm_validation(in.llm))
    /\ state.final_decision.status = "approved"
    /\ state.current_step = "completed"

C23_SaveFailureRecorded ==
    ret.kind = "save_failed" =>
        (state.current_step = "error" /\ Len(state.errors) > 0)

(***************************************************************************)
(* Independence of applications.                                           *)
(***************************************************************************)
\* C24: runs of different applications do not interfere.  Under every
\* interleaving of their steps, what a run has in hand and what its thread
\* has stored is the state the application reaches after the same number
\* of steps when it runs alone, and a thread holds only the state of its
\* own application.
C24_RunsIndependent ==
    \A id \in AppIds :
        runs[id] # NoRun =>
            LET alone == AloneAfter(id, plans[id], steps[id]) IN
                /\ runs[id] = alone
                /\ threads[id].application_id = id
                /\ threads[id].values = alone.values

\* both applications have ended, with different decisions, after their
\* steps were interleaved
C24_Witness ==
    /\ runs["app1"].next = "END"
    /\ runs["app2"].next = "END"
    /\ threads["app1"].values.final_decision.status = "approved"
    /\ threads["app2"].values.final_decision.status = "rejected"
    /\ steps["app1"] > steps["app2"]

(***************************************************************************)
(* Bounded retry of the LLM call.                                          *)
(***************************************************************************)
RetryBounded ==
    /\ llm_call.calls <= llm_call.retry_attempts
    /\ Len(llm_call.sleeps) <= llm_call.calls
    /\ llm_call.retry_attempts > 0 => Len(llm_call.sleeps) <= llm_call.retry_attempts - 1
    /\ \A i \in 1..Len(llm_call.sleeps) : llm_call.sleeps[i] = 2 ^ (i - 1)
    /\ llm_call.pc = "returned" =>
        /\ Len(llm_call.log) = llm_call.calls - 1
        /\ Len(llm_call.sleeps) = llm_call.calls - 1
    /\ llm_call.pc = "raised" =>
        /\ llm_call.calls = llm_call.retry_attempts
        /\ Len(llm_call.log) = llm_call.retry_attempts
        /\ llm_call.response = "none"
        /\ llm_call.retry_attempts > 0 =>
            /\ llm_call.raised = llm_call.log[llm_call.retry_attempts]
            /\ Len(llm_call.sleeps) = llm_call.retry_attempts - 1
    /\ (llm_call.pc # "start" /\ Len(llm_call.log) = llm_call.retry_attempts) => llm_call.pc = "raised"

RetryEnded == llm_call.pc \in {"returned", "raised"}

\* C25: the retry loop is bounded.  At most retry_attempts provider calls
\* are made; the first successful response is returned with no call after
\* it; the loop waits 2^attempt only between two attempts, never after the
\* last; it raises the last failure exactly when every attempt failed; and
\* every call ends.
C25_BoundedRetry ==
    /\ []RetryBounded
    /\ [][llm_call.pc = "returned" => llm_call' = llm_call]_vars
    /\ <>RetryEnded

\* all attempts of a call with three attempts failed, the last failure
\* differing from the one before, and the call has raised it
C25_Witness ==
    /\ llm_call.pc = "raised"
    /\ llm_call.retry_attempts = 3
    /\ llm_call.log = <<"timeout", "timeout", "rate_limit">>
    /\ llm_call.raised = "rate_limit"
    /\ llm_call.sleeps = <<1, 2>>

(***************************************************************************)
(* Routing after a stage's own node.                                       *)
(***************************************************************************)
\* C26: the router evaluated right after its own stage node never answers
\* error (after the exception path it answers reject), so every run whose
\* nodes return reaches the decision step and ends with a final decision.
C26_RunsReachDecision ==
    /\ route \in {"none", "continue", "reject"}
    /\ (proc = "running" /\ next \in StageNodes) =>
        \A in \in StageInputs(next) :
            in.fail => Router(next, RunNode(next, state, in)) = "reject"
    /\ (proc = "idle" /\ ret.kind \in {"final", "raised"}) =>
        (next = "END" /\ state.final_decision.kind # "none")

\* the result a stage node stores in its except branch
TookExceptionPath(n, s) ==
    /\ StageResult(n, s).kind = "dict"
    /\ StageResult(n, s).status = "error"
    /\ StageResult(n, s).score = 0

\* C27: a run in which a stage took its exception path, or in which a
\* router answered reject, never ends with an approved or conditional
\* decision.
C27_FailureNeverApproved ==
    (/\ next = "END"
     /\ state.final_decision.kind = "dict"
     /\ (route = "reject" \/ \E n \in StageNodes : TookExceptionPath(n, state)))
        => state.final_decision.status \notin {"approved", "conditional"}

(***************************************************************************)
(* Consistency of the final decision.                                      *)
(***************************************************************************)
\* C28: a final decision is consistent in itself.  Approved or conditional
\* with a positive requested amount: amount_approved is positive and
\* expires_at is set.  Rejected: amount_approved and expires_at are null.
C28_DecisionConsistent ==
    LET d == state.final_decision IN
    d.kind = "dict" =>
        /\ (d.status \in {"approved", "conditional"}
                /\ state.form_data.requested_amount > 0) =>
            (d.has_amount /\ d.amount_approved > 0 /\ d.expires_at)
        /\ d.status = "rejected" => (~d.has_amount /\ ~d.expires_at)

(***************************************************************************)
(* A failed LLM call in the legal stage.                                   *)
(***************************************************************************)
\* runs of the legal stage whose LLM call fails, over a grid of the other
\* sub-analyses' scores and issue counts
LegalFaultGrid ==
    {LlmFault(LIn(FALSE, Part(a, i), Part(b, j), 10000, 9000, 0, crit, c)) :
        a \in {0, 5000, 10000}, b \in {0, 5000, 10000}, c \in {0, 5000, 10000},
        i \in {0, 3}, j \in {0, 3}, crit \in BOOLEAN}

\* C29: when the LLM call of the legal stage fails, the legal result has
\* confidence 0.0 and the legal router answers reject whatever the other
\* legal sub-analyses gave; the edge leads to the decision step, and a
\* state holding such a legal result has no risk, relevance or financial
\* result.
C29_LegalFaultRejects ==
    /\ (proc = "running" /\ next = "legal_checker") =>
        \A in \in LegalFaultGrid :
            LET s2 == legal_node(state, in) IN
                /\ s2.legal_analysis.confidence = 0
                /\ should_continue_after_legal(s2) = "reject"
                /\ EdgeTarget("legal_checker", should_continue_after_legal(s2))
                        = "decision_maker"
    /\ (state.legal_analysis.kind = "dict" /\ state.legal_analysis.confidence = 0) =>
        /\ state.risk_analysis.kind = "none"
        /\ state.relevance_analysis.kind = "none"
        /\ state.financial_analysis.kind = "none"

\* the legal LLM call failed on an application whose other legal checks
\* were perfect: the result is approved with confidence 0, the router has
\* answered reject and the decision step is next
C29_Witness ==
    /\ state.legal_analysis.kind = "dict"
    /\ state.legal_analysis.status = "approved"
    /\ state.legal_analysis.confidence = 0
    /\ route = "reject"
    /\ next = "decision_maker"

(***************************************************************************)
(* The WebSocket connection registry.                                      *)
(***************************************************************************)
\* C30: a client that is still connected stays registered for the updates
\* of its application: when the handler of one connection ends and
\* disconnects, the registration of another, still open connection is not
\* removed.
C30_OpenStaysRegistered ==
    [][\A ws \in Sockets :
        (sockets[ws].st = "broken" /\ sockets'[ws].st = "closed") =>
            \A other \in Sockets \ {ws} :
                (/\ sockets[other].st = "open"
                 /\ active_connections[sockets[other].app] = other)
                    => active_connections'[sockets[other].app] = other]_vars

====
